---- MODULE Spec2Model ----
(***************************************************************************)
(* VISCA-over-IP to VISCA serial relay (src/src/index.ts).                 *)
(*                                                                         *)
(* Two parts are modelled:                                                 *)
(*   - the packet codec (ViscaIpPacket.toBuffer / fromBuffer / fromPayload)*)
(*     as operators on byte sequences, exercised by CodecSpec;             *)
(*   - the relay (the event handlers registered in main()) as a state      *)
(*     machine over the three module-level context variables, exercised    *)
(*     by Spec.                                                            *)
(* A byte is an integer in 0..255, a Buffer is a sequence of bytes.        *)
(***************************************************************************)
EXTENDS Integers, Sequences, FiniteSets, TLC

\* ------------------------------------------------------------------ bounds
MaxPayloadLen == 2
MaxChunkLen == 2
MaxBuffered == 1
MaxPendingWrites == 1
MaxPendingSends == 2

\* --------------------------------------------------------------- constants
\* enum ViscaIpPacketType
command == 256
inquiry == 272
reply == 273
deviceSettingCommand == 288
controlCommand == 512
controlReply == 513

\* JavaScript null (the initial value of the three context variables)
Null == -1

\* the serial delimiter of the DelimiterParser
delimiter == 255

\* size of the VISCA-IP header read by fromBuffer
HeaderLen == 8

\* ---------------------------------------------------------- number helpers
\* ToUint32 of the >>> operator; null converts to 0.  The numbers of the
\* model are the non-negative integers below 2^31 (the range of TLC's
\* integers), on which reduction modulo 2^32 changes nothing.
ToUint32(n) == IF n = Null THEN 0 ELSE n

\* n >>> k
ShiftRight(n, k) == ToUint32(n) \div (2 ^ k)

\* an element of the array given to Buffer.from is stored modulo 256
ToUint8(n) == IF n = Null THEN 0 ELSE n % 256

\* buffer.readUInt16BE(offset), offset counted from 0
readUInt16BE(buffer, offset) ==
    buffer[offset + 1] * 256 + buffer[offset + 2]

\* buffer.readUInt32BE(offset)
readUInt32BE(buffer, offset) ==
    buffer[offset + 1] * 16777216 + buffer[offset + 2] * 65536
        + buffer[offset + 3] * 256 + buffer[offset + 4]

\* buffer.subarray(start)
subarray(buffer, start) ==
    IF start >= Len(buffer) THEN <<>> ELSE SubSeq(buffer, start + 1, Len(buffer))

\* ------------------------------------------------------------ ViscaIpPacket
\* new ViscaIpPacket(type, length, sequenceNumber, payload)
ViscaIpPacket(type, length, sequenceNumber, payload) ==
    [type |-> type, length |-> length,
     sequenceNumber |-> sequenceNumber, payload |-> payload]

NoPacket == ViscaIpPacket(Null, Null, Null, <<>>)

\* fromPayload that counts the header into the length
fromPayload_lengthWithHeader(type, sequenceNumber, payload) ==
    ViscaIpPacket(type, Len(payload) + HeaderLen, sequenceNumber, payload)

\* ViscaIpPacket.fromPayload
fromPayload(type, sequenceNumber, payload) ==
    ViscaIpPacket(type, Len(payload), sequenceNumber, payload)

\* toBuffer without the high byte of the length (writes 0 for length >>> 8)
toBuffer_noLengthHigh(p) ==
    << ToUint8(ShiftRight(p.type, 8)),
       ToUint8(p.type),
       0,
       ToUint8(p.length),
       ToUint8(ShiftRight(p.sequenceNumber, 24)),
       ToUint8(ShiftRight(p.sequenceNumber, 16)),
       ToUint8(ShiftRight(p.sequenceNumber, 8)),
       ToUint8(p.sequenceNumber) >> \o p.payload

\* ViscaIpPacket.toBuffer
toBuffer(p) ==
    << ToUint8(ShiftRight(p.type, 8)),
       ToUint8(p.type),
       ToUint8(ShiftRight(p.length, 8)),
       ToUint8(p.length),
       ToUint8(ShiftRight(p.sequenceNumber, 24)),
       ToUint8(ShiftRight(p.sequenceNumber, 16)),
       ToUint8(ShiftRight(p.sequenceNumber, 8)),
       ToUint8(p.sequenceNumber) >> \o p.payload

\* the values for which ViscaIpPacket._parseType returns instead of throwing
KnownTypes ==
    {command, inquiry, reply, deviceSettingCommand, controlCommand, controlReply}

\* _parseType of the legacy revision (README.md): three codes, reply -> command
_parseType_legacy(value) ==
    IF value = command THEN command
    ELSE IF value = inquiry THEN inquiry
    ELSE IF value = reply THEN command
    ELSE Null

\* _parseType that lets every value through
_parseType_any(value) == value

\* ViscaIpPacket._parseType: the value itself, or Null for a throw
_parseType(value) == IF value \in KnownTypes THEN value ELSE Null

\* outcome of a call: error is "none" or the kind of the exception thrown
Returned(p) == [error |-> "none", packet |-> p]
Thrown(e) == [error |-> e, packet |-> NoPacket]

\* fromBuffer whose reads past the end give 0 instead of throwing
fromBuffer_padsShort(buffer) ==
    LET padded == [i \in 1..HeaderLen |-> IF i <= Len(buffer) THEN buffer[i] ELSE 0]
        type == _parseType(readUInt16BE(padded, 0))
        length == readUInt16BE(padded, 2)
        sequenceNumber == readUInt32BE(padded, 4)
        payload == subarray(buffer, HeaderLen)
    IN  IF type = Null THEN Thrown("UnknownType")
        ELSE IF Len(payload) # length THEN Thrown("LengthMismatch")
        ELSE Returned(ViscaIpPacket(type, length, sequenceNumber, payload))

\* fromBuffer that cuts a longer payload down to the declared length
fromBuffer_truncates(buffer) ==
    IF Len(buffer) < 2 THEN Thrown("RangeError")
    ELSE IF _parseType(readUInt16BE(buffer, 0)) = Null THEN Thrown("UnknownType")
    ELSE IF Len(buffer) < 4 THEN Thrown("RangeError")
    ELSE IF Len(buffer) < 8 THEN Thrown("RangeError")
    ELSE LET type == _parseType(readUInt16BE(buffer, 0))
             length == readUInt16BE(buffer, 2)
             sequenceNumber == readUInt32BE(buffer, 4)
             payload == subarray(buffer, HeaderLen)
         IN  IF Len(payload) < length THEN Thrown("LengthMismatch")
             ELSE Returned(ViscaIpPacket(type, length, sequenceNumber,
                                         SubSeq(payload, 1, length)))

\* ViscaIpPacket.fromBuffer; the reads throw a RangeError past the end
fromBuffer(buffer) ==
    IF Len(buffer) < 2 THEN Thrown("RangeError")
    ELSE IF _parseType(readUInt16BE(buffer, 0)) = Null THEN Thrown("UnknownType")
    ELSE IF Len(buffer) < 4 THEN Thrown("RangeError")
    ELSE IF Len(buffer) < 8 THEN Thrown("RangeError")
    ELSE LET type == _parseType(readUInt16BE(buffer, 0))
             length == readUInt16BE(buffer, 2)
             sequenceNumber == readUInt32BE(buffer, 4)
             payload == subarray(buffer, HeaderLen)
         IN  IF Len(payload) # length THEN Thrown("LengthMismatch")
             ELSE Returned(ViscaIpPacket(type, length, sequenceNumber, payload))

\* ------------------------------------------------------------------ state
VARIABLES
    currentSequenceNumber,  \* let currentSequenceNumber (null until a request)
    currentRemoteInfo,      \* let currentRemoteInfo
    currentPacketType,      \* let currentPacketType
    phase,                  \* "opening", "openFailed", "binding", "listening",
                            \* or "crashed" after an uncaught exception
    parserBuffer,           \* bytes the DelimiterParser holds back
    pendingWrites,          \* serialPort.write calls whose callback is due
    pendingSends,           \* socket.send calls whose callback is due
    event,                  \* the event the last handler was run for
    written,                \* serialPort.write calls issued by the last handler
    sent,                   \* socket.send calls issued by the last handler
    logged,                 \* console.log lines of the last handler
    lastRequest,            \* history: the last well-formed datagram received
    superseded,             \* history: sequence number and sender of the
                            \* request that lastRequest overwrote with no
                            \* serial frame handled in between
    unanswered,             \* history: no frame handled since lastRequest
    cPacket,                \* codec run: the packet given to toBuffer
    cBuffer,                \* codec run: the bytes given to fromBuffer
    cResult,                \* codec run: the outcome of fromBuffer
    cPc,                    \* codec run: "packet", "bytes", "decoded" or "idle"
    pTodo,                  \* parser run: serial bytes still to arrive
    pFed,                   \* parser run: serial bytes written to the parser
    pFrames                 \* parser run: the chunks the parser has pushed

context == <<currentSequenceNumber, currentRemoteInfo, currentPacketType>>
history == <<lastRequest, superseded, unanswered>>
effects == <<written, sent, logged>>
relayVars == <<context, phase, parserBuffer, pendingWrites, pendingSends,
               event, effects, history>>
codecVars == <<cPacket, cBuffer, cResult, cPc>>
parserVars == <<pTodo, pFed, pFrames>>
vars == <<relayVars, codecVars, parserVars>>

\* ----------------------------------------------------------------- inputs
\* big-endian fields as they appear on the wire (spec section 6)
BE16(n) == << (n \div 256) % 256, n % 256 >>
BE32(n) == << (n \div 16777216) % 256, (n \div 65536) % 256,
              (n \div 256) % 256, n % 256 >>

SeqsUpTo(S, n) == UNION { [1..k -> S] : k \in 0..n }
Prefixes(b, n) == { SubSeq(b, 1, k) : k \in 0..n }

\* a byte repeated n times
Fill(n, b) == [i \in 1..n |-> b]

PayloadBytes == {1, 255}
LongLens == {255, 256, 257}
Payloads == SeqsUpTo(PayloadBytes, MaxPayloadLen) \cup { Fill(n, 129) : n \in LongLens }
SeqSamples == {0, 1, 7, 256, 16909060, 2147483647}
WireCodeSamples == KnownTypes \cup {0, 1, 257, 65535}
DeclaredSamples == (0..(MaxPayloadLen + 1)) \cup {256, 511}

ValidPackets ==
    { fromPayload(t, s, p) : t \in KnownTypes, s \in SeqSamples, p \in Payloads }

FullBuffers ==
    { BE16(c) \o BE16(l) \o BE32(s) \o p :
        c \in WireCodeSamples, l \in DeclaredSamples,
        s \in {1, 2147483647}, p \in Payloads }

ShortBuffers ==
    UNION { Prefixes(BE16(c) \o BE16(l) \o BE32(1), HeaderLen - 1) :
              c \in WireCodeSamples, l \in {0, 1} }

RawBuffers == FullBuffers \cup ShortBuffers

\* ------------------------------------------------------------ codec runs
NoResult == [error |-> "pending", packet |-> NoPacket]

CodecIdle ==
    /\ cPacket = NoPacket
    /\ cBuffer = <<>>
    /\ cResult = NoResult
    /\ cPc = "idle"

\* p.toBuffer()
Encode ==
    /\ cPc = "packet"
    /\ cBuffer' = toBuffer(cPacket)
    /\ cPc' = "bytes"
    /\ UNCHANGED <<cPacket, cResult, relayVars, parserVars>>

\* ViscaIpPacket.fromBuffer(bytes)
Decode ==
    /\ cPc = "bytes"
    /\ cResult' = fromBuffer(cBuffer)
    /\ cPc' = "decoded"
    /\ UNCHANGED <<cPacket, cBuffer, relayVars, parserVars>>

CodecNext == Encode \/ Decode

\* ---------------------------------------------------------- relay inputs
\* RemoteInfo of a datagram (address and port of the sender)
RemoteInfos ==
    { [address |-> "10.0.0.1", port |-> 50001],
      [address |-> "10.0.0.2", port |-> 50002] }

\* null in the place of a RemoteInfo
NoRemoteInfo == [address |-> "null", port |-> Null]

RequestSeqs == {1, 2}
RequestPayloads == { <<129, 1, 255>> }

WellFormedDatagrams ==
    { BE16(c) \o BE16(Len(p)) \o BE32(s) \o p :
        c \in KnownTypes, s \in RequestSeqs, p \in RequestPayloads }

MalformedDatagrams ==
    { BE16(0) \o BE16(3) \o BE32(1) \o <<129, 1, 255>>,        \* unknown code
      BE16(65535) \o BE16(0) \o BE32(2),                       \* unknown code
      BE16(command) \o BE16(4) \o BE32(1) \o <<129, 1, 255>>,  \* declared > actual
      BE16(inquiry) \o BE16(2) \o BE32(2) \o <<129, 1, 255>>,  \* declared < actual
      BE16(command) \o BE16(0),                                \* 4 bytes
      <<>> }

Datagrams == WellFormedDatagrams \cup MalformedDatagrams

SerialBytes == {144, delimiter}
Chunks == SeqsUpTo(SerialBytes, MaxChunkLen) \ {<<>>}

\* ------------------------------------------------- reading of the wire format
\* (spec section 6), used to record which request a datagram carries
WireCode(b) == b[1] * 256 + b[2]
WireLength(b) == b[3] * 256 + b[4]
WireSeq(b) == ((b[5] * 256 + b[6]) * 256 + b[7]) * 256 + b[8]
WellFormed(b) ==
    /\ Len(b) >= HeaderLen
    /\ WireCode(b) \in {256, 272, 273, 288, 512, 513}
    /\ WireLength(b) = Len(b) - HeaderLen

Request(seq, peer, category) ==
    [sequenceNumber |-> seq, remoteInfo |-> peer, type |-> category]
NoRequest == Request(Null, NoRemoteInfo, Null)
RequestOf(b, peer) == Request(WireSeq(b), peer, WireCode(b))
Overwritten(r) == [sequenceNumber |-> r.sequenceNumber, remoteInfo |-> r.remoteInfo]

Event(kind, buffer, remoteInfo, error) ==
    [kind |-> kind, buffer |-> buffer, remoteInfo |-> remoteInfo, error |-> error]

\* ------------------------------------------------------------------- relay
\* module-level declarations and main() up to serialPort.open
RelayInit ==
    /\ currentSequenceNumber = Null
    /\ currentRemoteInfo = NoRemoteInfo
    /\ currentPacketType = Null
    /\ phase = "opening"
    /\ parserBuffer = <<>>
    /\ pendingWrites = 0
    /\ pendingSends = 0
    /\ event = Event("none", <<>>, NoRemoteInfo, FALSE)
    /\ written = <<>>
    /\ sent = <<>>
    /\ logged = <<>>
    /\ lastRequest = NoRequest
    /\ superseded = Overwritten(NoRequest)
    /\ unanswered = FALSE

Alive == phase \in {"opening", "binding", "listening"}

\* an open callback that binds the socket whether or not the open failed
serialPortOpen_bindsAnyway(error) ==
    /\ phase = "opening"
    /\ phase' = "binding"
    /\ logged' = IF error THEN <<"SerialOpenError">> ELSE <<>>
    /\ event' = Event("open", <<>>, NoRemoteInfo, error)
    /\ written' = <<>>
    /\ sent' = <<>>
    /\ UNCHANGED <<context, parserBuffer, pendingWrites, pendingSends,
                   history, codecVars, parserVars>>

\* serialPort.open callback
serialPortOpen(error) ==
    /\ phase = "opening"
    /\ phase' = IF error THEN "openFailed" ELSE "binding"
    /\ logged' = IF error THEN <<"SerialOpenError">> ELSE <<>>
    /\ event' = Event("open", <<>>, NoRemoteInfo, error)
    /\ written' = <<>>
    /\ sent' = <<>>
    /\ UNCHANGED <<context, parserBuffer, pendingWrites, pendingSends,
                   history, codecVars, parserVars>>

\* socket.on('listening')
socketListening ==
    /\ phase = "binding"
    /\ phase' = "listening"
    /\ logged' = <<"SocketListening">>
    /\ event' = Event("listening", <<>>, NoRemoteInfo, FALSE)
    /\ written' = <<>>
    /\ sent' = <<>>
    /\ UNCHANGED <<context, parserBuffer, pendingWrites, pendingSends,
                   history, codecVars, parserVars>>

\* assignments that keep the context of the first request
recordContext_firstWins(receivedPacket, remoteInfo) ==
    IF currentRemoteInfo = NoRemoteInfo
      THEN /\ currentSequenceNumber' = receivedPacket.sequenceNumber
           /\ currentRemoteInfo' = remoteInfo
           /\ currentPacketType' = receivedPacket.type
      ELSE UNCHANGED <<currentSequenceNumber, currentRemoteInfo, currentPacketType>>

\* assignments that leave out currentRemoteInfo
recordContext_keepsPeer(receivedPacket, remoteInfo) ==
    /\ currentSequenceNumber' = receivedPacket.sequenceNumber
    /\ currentRemoteInfo' = currentRemoteInfo
    /\ currentPacketType' = receivedPacket.type

\* the three assignments of socket.on('message')
recordContext(receivedPacket, remoteInfo) ==
    /\ currentSequenceNumber' = receivedPacket.sequenceNumber
    /\ currentRemoteInfo' = remoteInfo
    /\ currentPacketType' = receivedPacket.type

\* a try block that writes the whole datagram, header included
messageTry_writesDatagram(receivedPacket, remoteInfo) ==
    /\ recordContext(receivedPacket, remoteInfo)
    /\ written' = << toBuffer(receivedPacket) >>
    /\ pendingWrites' = pendingWrites + 1
    /\ logged' = <<"SocketRecv", "SerialSend">>
    /\ sent' = <<>>

\* socket.on('message'): the try block once fromBuffer has returned
messageTry(receivedPacket, remoteInfo) ==
    /\ recordContext(receivedPacket, remoteInfo)
    /\ written' = << receivedPacket.payload >>
    /\ pendingWrites' = pendingWrites + 1
    /\ logged' = <<"SocketRecv", "SerialSend">>
    /\ sent' = <<>>

\* a catch block that resets the context
messageCatch_clearsContext(e) ==
    /\ currentSequenceNumber' = Null
    /\ currentRemoteInfo' = NoRemoteInfo
    /\ currentPacketType' = Null
    /\ written' = <<>>
    /\ pendingWrites' = pendingWrites
    /\ logged' = <<"SocketRecvError">>
    /\ sent' = <<>>

\* socket.on('message'): the catch block
messageCatch(e) ==
    /\ UNCHANGED context
    /\ written' = <<>>
    /\ pendingWrites' = pendingWrites
    /\ logged' = <<"SocketRecvError">>
    /\ sent' = <<>>

\* socket.on('message', (msgBuffer, remoteInfo) => ...)
socketMessage(msgBuffer, remoteInfo) ==
    LET result == fromBuffer(msgBuffer) IN
    /\ phase = "listening"
    /\ result.error = "none" => pendingWrites < MaxPendingWrites
    /\ IF result.error = "none"
         THEN messageTry(result.packet, remoteInfo)
         ELSE messageCatch(result.error)
    /\ event' = Event("message", msgBuffer, remoteInfo, FALSE)
    /\ IF WellFormed(msgBuffer)
         THEN /\ lastRequest' = RequestOf(msgBuffer, remoteInfo)
              /\ superseded' = Overwritten(IF unanswered THEN lastRequest ELSE NoRequest)
              /\ unanswered' = TRUE
         ELSE UNCHANGED history
    /\ UNCHANGED <<phase, parserBuffer, pendingSends, codecVars, parserVars>>

\* a write callback that issues the write again after a failure
serialWriteCallback_retries(error) ==
    /\ Alive
    /\ pendingWrites > 0
    /\ pendingWrites' = IF error THEN pendingWrites ELSE pendingWrites - 1
    /\ logged' = IF error THEN <<"SerialWriteError">> ELSE <<>>
    /\ event' = Event("writeCallback", <<>>, NoRemoteInfo, error)
    /\ written' = IF error THEN << <<129, 1, 255>> >> ELSE <<>>
    /\ sent' = <<>>
    /\ UNCHANGED <<context, phase, parserBuffer, pendingSends, history, codecVars, parserVars>>

\* serialPort.write callback
serialWriteCallback(error) ==
    /\ Alive
    /\ pendingWrites > 0
    /\ pendingWrites' = pendingWrites - 1
    /\ logged' = IF error THEN <<"SerialWriteError">> ELSE <<>>
    /\ event' = Event("writeCallback", <<>>, NoRemoteInfo, error)
    /\ written' = <<>>
    /\ sent' = <<>>
    /\ UNCHANGED <<context, phase, parserBuffer, pendingSends, history, codecVars, parserVars>>

\* a send callback that drops the context when the send failed
sendCallbackContext_clearsOnError(error) ==
    IF error
      THEN /\ currentSequenceNumber' = Null
           /\ currentRemoteInfo' = NoRemoteInfo
           /\ currentPacketType' = Null
      ELSE UNCHANGED <<currentSequenceNumber, currentRemoteInfo, currentPacketType>>

\* what the socket.send callback does to the context
sendCallbackContext(error) == UNCHANGED context

\* socket.send callback
socketSendCallback(error) ==
    /\ Alive
    /\ pendingSends > 0
    /\ pendingSends' = pendingSends - 1
    /\ logged' = IF error THEN <<"SocketSendError">> ELSE <<>>
    /\ event' = Event("sendCallback", <<>>, NoRemoteInfo, error)
    /\ written' = <<>>
    /\ sent' = <<>>
    /\ sendCallbackContext(error)
    /\ UNCHANGED <<phase, parserBuffer, pendingWrites, history, codecVars, parserVars>>

\* ------------------------------------------------------------ serial side
\* data.indexOf(delimiter), counted from 0, -1 when absent
indexOf(data, d) ==
    IF \E i \in 1..Len(data) : data[i] = d
      THEN (CHOOSE i \in 1..Len(data) :
               data[i] = d /\ \A j \in 1..(i - 1) : data[j] # d) - 1
      ELSE -1

\* a parser set up to strip the delimiter
includeDelimiter_false == FALSE

\* the includeDelimiter option given to the DelimiterParser
includeDelimiter == TRUE

\* DelimiterParser({delimiter: [0xff], includeDelimiter: true})._transform:
\* the chunks pushed for data = buffer ++ chunk ...
RECURSIVE transformFrames(_)
transformFrames(data) ==
    LET position == indexOf(data, delimiter) IN
    IF position = -1 THEN <<>>
    ELSE << SubSeq(data, 1, position + (IF includeDelimiter THEN 1 ELSE 0)) >>
            \o transformFrames(subarray(data, position + 1))

\* a parser that forgets the bytes of an unfinished frame
transformRest_dropsBuffer(data) == <<>>

\* ... and the bytes kept in this.buffer afterwards
RECURSIVE transformRest(_)
transformRest(data) ==
    LET position == indexOf(data, delimiter) IN
    IF position = -1 THEN data
    ELSE transformRest(subarray(data, position + 1))

\* a reply category that also answers a control reply with a control reply
responsePacketType_echoesControl ==
    IF currentPacketType \in {controlCommand, controlReply}
      THEN controlReply ELSE reply

\* a reply category that ignores the request category
responsePacketType_alwaysReply == reply

\* serialPortParser.on('data'): const responsePacketType
responsePacketType ==
    IF currentPacketType = controlCommand THEN controlReply ELSE reply

\* serialPortParser.on('data'): const responsePacket
responsePacket(responseData) ==
    fromPayload(responsePacketType, currentSequenceNumber, responseData)

\* a send that leaves the trailing delimiter out of the payload
sendCall_dropsSentinel(responseData) ==
    [msg |-> toBuffer(responsePacket(SubSeq(responseData, 1, Len(responseData) - 1))),
     port |-> currentRemoteInfo.port,
     address |-> currentRemoteInfo.address]

\* serialPortParser.on('data'): the arguments of socket.send
sendCall(responseData) ==
    [msg |-> toBuffer(responsePacket(responseData)),
     port |-> currentRemoteInfo.port,
     address |-> currentRemoteInfo.address]

\* serialPortParser.on('data'): currentRemoteInfo.port of null is a TypeError,
\* thrown after both log lines and before socket.send is called
dataThrows == currentRemoteInfo = NoRemoteInfo

\* serialPortParser.on('data') for each frame of one chunk, in order
dataHandler(frames) ==
    IF dataThrows
      THEN \* uncaught exception in the first call: the process ends
           /\ phase' = "crashed"
           /\ sent' = <<>>
           /\ logged' = <<"SerialRecv", "SocketSend", "TypeError">>
           /\ pendingSends' = pendingSends
      ELSE /\ phase' = phase
           /\ sent' = [i \in 1..Len(frames) |-> sendCall(frames[i])]
           /\ logged' = [i \in 1..(2 * Len(frames)) |->
                           IF i % 2 = 1 THEN "SerialRecv" ELSE "SocketSend"]
           /\ pendingSends' = pendingSends + Len(frames)

\* a chunk of bytes from the serial port, piped through the parser
serialData(chunk) ==
    LET data == parserBuffer \o chunk
        frames == transformFrames(data)
        rest == transformRest(data)
    IN
    /\ phase \in {"binding", "listening"}
    /\ Len(rest) <= MaxBuffered
    /\ pendingSends + Len(frames) <= MaxPendingSends
    /\ event' = Event("serial", chunk, NoRemoteInfo, FALSE)
    /\ written' = <<>>
    /\ IF frames = <<>>
         THEN /\ parserBuffer' = rest
              /\ sent' = <<>>
              /\ logged' = <<>>
              /\ UNCHANGED <<phase, pendingSends, history>>
         ELSE /\ dataHandler(frames)
              /\ parserBuffer' = IF dataThrows THEN parserBuffer ELSE rest
              /\ unanswered' = IF dataThrows THEN unanswered ELSE FALSE
              /\ UNCHANGED <<lastRequest, superseded>>
    /\ UNCHANGED <<context, pendingWrites, codecVars, parserVars>>

\* ---------------------------------------------------------- specifications
\* no parser run
ParserIdle ==
    /\ pTodo = <<>>
    /\ pFed = <<>>
    /\ pFrames = <<>>

Init == RelayInit /\ CodecIdle /\ ParserIdle

Next ==
    \/ \E error \in BOOLEAN : serialPortOpen(error)
    \/ socketListening
    \/ \E msgBuffer \in Datagrams, remoteInfo \in RemoteInfos :
          socketMessage(msgBuffer, remoteInfo)
    \/ \E error \in BOOLEAN : serialWriteCallback(error)
    \/ \E error \in BOOLEAN : socketSendCallback(error)
    \/ \E chunk \in Chunks : serialData(chunk)

Spec == Init /\ [][Next]_vars

CodecInit ==
    /\ RelayInit
    /\ ParserIdle
    /\ cResult = NoResult
    /\ \/ cPc = "packet" /\ cPacket \in ValidPackets /\ cBuffer = <<>>
       \/ cPc = "bytes" /\ cPacket = NoPacket /\ cBuffer \in RawBuffers

CodecSpec == CodecInit /\ [][CodecNext]_vars

\* ----------------------------------------------------------- parser runs
MaxStreamLen == 5
ExampleStream == <<129, 1, 255, 144, 80, 255>>
Streams == SeqsUpTo(SerialBytes, MaxStreamLen) \cup {ExampleStream}

\* serialPort.pipe(serialPortParser): the next n bytes of the stream reach
\* the parser as one chunk
parserWrite(n) ==
    LET chunk == SubSeq(pTodo, 1, n)
        data == parserBuffer \o chunk
    IN
    /\ n \in 1..Len(pTodo)
    /\ pTodo' = subarray(pTodo, n)
    /\ pFed' = pFed \o chunk
    /\ pFrames' = pFrames \o transformFrames(data)
    /\ parserBuffer' = transformRest(data)
    /\ UNCHANGED <<context, phase, pendingWrites, pendingSends, event,
                   effects, history, codecVars>>

ParserInit ==
    /\ RelayInit
    /\ CodecIdle
    /\ pTodo \in Streams
    /\ pFed = <<>>
    /\ pFrames = <<>>

ParserNext == \E n \in 1..(MaxStreamLen + 1) : parserWrite(n)

ParserSpec == ParserInit /\ [][ParserNext]_vars

\* ------------------------------------------------------------ properties
\* the category codes of the wire format (spec section 6)
WireCommand == 256
WireInquiry == 272
WireReply == 273
WireDeviceSettingCommand == 288
WireControlCommand == 512
WireControlReply == 513
WireCategories ==
    {WireCommand, WireInquiry, WireReply, WireDeviceSettingCommand,
     WireControlCommand, WireControlReply}

\* number of sentinel bytes in a chunk: the frames the chunk completes
RECURSIVE Sentinels(_)
Sentinels(b) ==
    IF b = <<>> THEN 0
    ELSE (IF Head(b) = 255 THEN 1 ELSE 0) + Sentinels(Tail(b))

\* the last handler ran for a serial chunk that completed a frame
FrameHandled == event.kind = "serial" /\ Sentinels(event.buffer) > 0

\* the reply category the spec derives from a request category
RepliedCategory(c) == IF c = WireControlCommand THEN WireControlReply ELSE WireReply

\* a network send that answers request r
AnswersRequest(s, r) ==
    /\ Len(s.msg) >= HeaderLen
    /\ WireSeq(s.msg) = r.sequenceNumber
    /\ WireCode(s.msg) = RepliedCategory(r.type)
    /\ s.address = r.remoteInfo.address
    /\ s.port = r.remoteInfo.port

\* C1: round trip: decoding the bytes produced by encoding a valid packet
\* succeeds and gives back the same category, sequence number and payload.
C1_RoundTrip ==
    (cPc = "decoded" /\ cPacket # NoPacket) =>
        /\ cResult.error = "none"
        /\ cResult.packet.type = cPacket.type
        /\ cResult.packet.sequenceNumber = cPacket.sequenceNumber
        /\ cResult.packet.payload = cPacket.payload

C1_Witness ==
    /\ cPc = "decoded"
    /\ cPacket # NoPacket
    /\ cPacket.type = controlReply
    /\ cPacket.sequenceNumber = 2147483647
    /\ Len(cPacket.payload) = 257
    /\ cResult.error = "none"
    /\ cResult.packet.payload = cPacket.payload

\* C2: overwrite semantics: a network request by itself causes no network
\* send, and a serial chunk that completes frames while a request has been
\* received causes exactly one send per frame, each carrying the sequence
\* number, the derived category and the sender of the most recent valid
\* request, also when that request overwrote an earlier unanswered one.
C2_OverwriteSemantics ==
    /\ event.kind = "message" => sent = <<>>
    /\ (FrameHandled /\ lastRequest # NoRequest) =>
          /\ Len(sent) = Sentinels(event.buffer)
          /\ \A i \in 1..Len(sent) : AnswersRequest(sent[i], lastRequest)

C2_Witness ==
    /\ FrameHandled
    /\ Len(sent) = 1
    /\ superseded.sequenceNumber = 1
    /\ lastRequest.sequenceNumber = 2
    /\ superseded.remoteInfo # lastRequest.remoteInfo
    /\ WireSeq(sent[1].msg) = 2
    /\ sent[1].address = lastRequest.remoteInfo.address

\* C3: category routing: every packet sent for a serial frame has category
\* ControlReply if and only if the last valid request was a ControlCommand,
\* category Reply otherwise, and the sequence number of that request.
C3_CategoryRouting ==
    (FrameHandled /\ lastRequest # NoRequest) =>
        /\ sent # <<>>
        /\ \A i \in 1..Len(sent) :
              /\ WireCode(sent[i].msg) = WireControlReply
                    <=> lastRequest.type = WireControlCommand
              /\ WireCode(sent[i].msg) \in {WireControlReply, WireReply}
              /\ WireSeq(sent[i].msg) = lastRequest.sequenceNumber

C3_Witness ==
    /\ FrameHandled
    /\ lastRequest.type = WireControlCommand
    /\ sent # <<>>
    /\ WireCode(sent[1].msg) = WireControlReply
    /\ WireSeq(sent[1].msg) = lastRequest.sequenceNumber

\* C4: orphan drop: a serial frame that arrives when no valid request has
\* ever been received is logged and discarded: the handler returns, the log
\* announces no network send and none is made.
C4_OrphanDrop ==
    (FrameHandled /\ lastRequest = NoRequest) =>
        /\ sent = <<>>
        /\ phase # "crashed"
        /\ \A i \in 1..Len(logged) : logged[i] \notin {"SocketSend", "TypeError"}

\* C5: no failure is fatal: after a malformed datagram, a failed serial
\* write, a failed network send or an orphan serial frame the relay is still
\* running.
C5_NoFailureFatal ==
    (\/ event.kind = "message" /\ ~WellFormed(event.buffer)
     \/ event.kind = "writeCallback" /\ event.error
     \/ event.kind = "sendCallback" /\ event.error
     \/ FrameHandled /\ lastRequest = NoRequest)
        => phase \in {"binding", "listening"}

\* C6: a datagram that fails to decode leaves the three context variables
\* unchanged and causes no serial write and no network send.
C6_MalformedNoEffect ==
    [][(event'.kind = "message" /\ ~WellFormed(event'.buffer)) =>
          /\ UNCHANGED context
          /\ written' = <<>>
          /\ sent' = <<>>
          /\ UNCHANGED <<pendingWrites, pendingSends>>]_vars

C6_Witness ==
    /\ event.kind = "message"
    /\ ~WellFormed(event.buffer)
    /\ Len(event.buffer) >= HeaderLen
    /\ currentRemoteInfo # NoRemoteInfo
    /\ currentRemoteInfo # event.remoteInfo
    /\ written = <<>>

\* C7: length invariant: on an input of at least 8 bytes with a known
\* category code, decode fails with a length mismatch whenever the declared
\* length differs from the number of bytes after the header, and succeeds,
\* with exactly those bytes as the payload, when they are equal.
C7_LengthInvariant ==
    (cPc = "decoded" /\ Len(cBuffer) >= HeaderLen
        /\ WireCode(cBuffer) \in WireCategories) =>
        IF WireLength(cBuffer) # Len(cBuffer) - HeaderLen
          THEN cResult.error = "LengthMismatch" /\ cResult.packet = NoPacket
          ELSE /\ cResult.error = "none"
               /\ cResult.packet.length = WireLength(cBuffer)
               /\ Len(cResult.packet.payload) = Len(cBuffer) - HeaderLen
               /\ \A i \in 1..Len(cResult.packet.payload) :
                     cResult.packet.payload[i] = cBuffer[HeaderLen + i]

C7_Witness ==
    /\ cPc = "decoded"
    /\ Len(cBuffer) = HeaderLen + 2
    /\ WireCode(cBuffer) = WireInquiry
    /\ WireLength(cBuffer) = 1
    /\ cResult.error = "LengthMismatch"

\* C8: unknown category rejection: decode fails with an unknown-category
\* error for every 16-bit code at bytes 0-1 other than the six defined ones,
\* whatever follows.
C8_UnknownCategory ==
    (cPc = "decoded" /\ Len(cBuffer) >= 2
        /\ WireCode(cBuffer) \notin WireCategories) =>
        cResult.error = "UnknownType" /\ cResult.packet = NoPacket

C8_Witness ==
    /\ cPc = "decoded"
    /\ Len(cBuffer) = HeaderLen + 1
    /\ WireCode(cBuffer) = 65535
    /\ WireLength(cBuffer) = 1
    /\ cResult.error = "UnknownType"

\* C9: context atomicity: between handlers the three context variables are
\* all unset, or all set to the sequence number, sender and category of the
\* most recent valid request.
C9_ContextAtomic ==
    \/ /\ lastRequest = NoRequest
       /\ currentSequenceNumber = Null
       /\ currentRemoteInfo = NoRemoteInfo
       /\ currentPacketType = Null
    \/ /\ lastRequest # NoRequest
       /\ currentSequenceNumber = lastRequest.sequenceNumber
       /\ currentRemoteInfo = lastRequest.remoteInfo
       /\ currentPacketType = lastRequest.type
       /\ currentSequenceNumber # Null
       /\ currentRemoteInfo # NoRemoteInfo
       /\ currentPacketType # Null

C9_Witness ==
    /\ superseded.sequenceNumber = 1
    /\ superseded.remoteInfo.port = 50001
    /\ currentSequenceNumber = 2
    /\ currentRemoteInfo.port = 50002
    /\ currentPacketType = inquiry

\* C10: the context changes only when the network handler decodes a datagram
\* successfully, and once set it is never unset.
C10_ContextOnlyByRequest ==
    [][/\ context' # context =>
             event'.kind = "message" /\ WellFormed(event'.buffer)
       /\ currentSequenceNumber # Null => currentSequenceNumber' # Null
       /\ currentRemoteInfo # NoRemoteInfo => currentRemoteInfo' # NoRemoteInfo
       /\ currentPacketType # Null => currentPacketType' # Null]_vars

C10_Witness ==
    /\ event.kind = "sendCallback"
    /\ event.error
    /\ currentRemoteInfo # NoRemoteInfo
    /\ currentSequenceNumber = lastRequest.sequenceNumber

\* the bytes of a datagram after its header
WirePayload(b) == [i \in 1..(Len(b) - HeaderLen) |-> b[HeaderLen + i]]

\* C11: each successfully decoded datagram causes exactly one serial write,
\* of exactly the datagram's bytes from offset 8 on, issued with the context
\* already overwritten by that datagram; nothing else writes to the serial
\* channel.
C11_PayloadForwarded ==
    /\ (event.kind = "message" /\ WellFormed(event.buffer)) =>
          /\ written = << WirePayload(event.buffer) >>
          /\ currentSequenceNumber = WireSeq(event.buffer)
          /\ currentRemoteInfo = event.remoteInfo
          /\ currentPacketType = WireCode(event.buffer)
    /\ ~(event.kind = "message" /\ WellFormed(event.buffer)) => written = <<>>

C11_Witness ==
    /\ event.kind = "message"
    /\ WellFormed(event.buffer)
    /\ written = << <<129, 1, 255>> >>
    /\ superseded.sequenceNumber = 1
    /\ currentSequenceNumber = 2

\* concatenation of a sequence of byte sequences
RECURSIVE Flatten(_)
Flatten(fs) == IF fs = <<>> THEN <<>> ELSE Head(fs) \o Flatten(Tail(fs))

\* position of the last sentinel byte of a stream, 0 when there is none
LastSentinel(b) ==
    IF \E i \in 1..Len(b) : b[i] = 255
      THEN CHOOSE i \in 1..Len(b) :
              b[i] = 255 /\ \A j \in (i + 1)..Len(b) : b[j] # 255
      ELSE 0

\* C12: frame boundary: every frame the parser emits ends with 0xFF and
\* holds no other 0xFF, and the frames emitted, concatenated in order, are
\* the bytes received up to and including the last 0xFF; a bare 0xFF is a
\* frame of length 1, and 81 01 FF 90 50 FF gives 81 01 FF and 90 50 FF.
C12_FrameBoundary ==
    /\ \A i \in 1..Len(pFrames) :
          /\ Len(pFrames[i]) >= 1
          /\ pFrames[i][Len(pFrames[i])] = 255
          /\ \A j \in 1..(Len(pFrames[i]) - 1) : pFrames[i][j] # 255
    /\ Flatten(pFrames) = SubSeq(pFed, 1, LastSentinel(pFed))
    /\ pFed = <<255>> => pFrames = << <<255>> >>
    /\ pFed = ExampleStream => pFrames = << <<129, 1, 255>>, <<144, 80, 255>> >>

C12_Witness ==
    /\ pFed = ExampleStream
    /\ pFrames = << <<129, 1, 255>>, <<144, 80, 255>> >>
    /\ parserBuffer = <<>>

\* C13: wire format of encode: the encoded bytes are the category code
\* (2 bytes), the payload length (2 bytes) and the sequence number (4 bytes),
\* all big-endian, followed by the unchanged payload, 8 + len(payload) bytes
\* in all; for a packet built from a payload, as the relay builds its
\* replies, the length field equals the number of payload bytes.
C13_WireFormat ==
    (cPacket # NoPacket /\ cPc \in {"bytes", "decoded"}) =>
        /\ Len(cBuffer) = HeaderLen + Len(cPacket.payload)
        /\ cBuffer = BE16(cPacket.type) \o BE16(Len(cPacket.payload))
                        \o BE32(cPacket.sequenceNumber) \o cPacket.payload
        /\ WireLength(cBuffer) = Len(cBuffer) - HeaderLen

C13_Witness ==
    /\ cPc = "bytes"
    /\ cPacket # NoPacket
    /\ cPacket.type = controlReply
    /\ cPacket.sequenceNumber = 16909060
    /\ Len(cPacket.payload) = 256
    /\ SubSeq(cBuffer, 1, HeaderLen) = <<2, 1, 1, 0, 1, 2, 3, 4>>

\* C14: decode needs 8 bytes: every input of 0..7 bytes is rejected and
\* gives no packet, and an input of exactly 8 bytes with a known category
\* code and declared length 0 decodes to a packet with an empty payload.
C14_HeaderRequired ==
    cPc = "decoded" =>
        /\ Len(cBuffer) < HeaderLen =>
              cResult.error # "none" /\ cResult.packet = NoPacket
        /\ (Len(cBuffer) = HeaderLen /\ WireCode(cBuffer) \in WireCategories
               /\ WireLength(cBuffer) = 0) =>
              /\ cResult.error = "none"
              /\ cResult.packet.payload = <<>>
              /\ cResult.packet.length = 0

C14_Witness ==
    /\ cPc = "decoded"
    /\ cBuffer = <<1, 0, 0, 0>>
    /\ cResult.error = "RangeError"
    /\ cResult.packet = NoPacket

\* C18: decode maps each of the six category codes to its own category; a
\* datagram with code 0x0111 decodes to Reply, not Command.
C18_CategoryOwn ==
    (cPc = "decoded" /\ WellFormed(cBuffer)) =>
        /\ cResult.error = "none"
        /\ cResult.packet.type = WireCode(cBuffer)
        /\ WireCode(cBuffer) = WireReply =>
              cResult.packet.type = reply /\ cResult.packet.type # command

C18_Witness ==
    /\ cPc = "decoded"
    /\ cPacket = NoPacket
    /\ WellFormed(cBuffer)
    /\ WireCode(cBuffer) = WireReply
    /\ cResult.error = "none"
    /\ cResult.packet.type = reply

\* C15: channel failures are abandoned: a write callback or a send
\* callback, failed or not, issues no serial write and no network send and
\* leaves the context alone; its only effect is to retire the call and, on
\* failure, one log line.
C15_NoRetry ==
    [][/\ event'.kind = "writeCallback" =>
             /\ written' = <<>>
             /\ sent' = <<>>
             /\ pendingWrites' = pendingWrites - 1
             /\ pendingSends' = pendingSends
             /\ logged' = IF event'.error THEN <<"SerialWriteError">> ELSE <<>>
             /\ UNCHANGED <<context, phase, parserBuffer>>
       /\ event'.kind = "sendCallback" =>
             /\ written' = <<>>
             /\ sent' = <<>>
             /\ pendingSends' = pendingSends - 1
             /\ pendingWrites' = pendingWrites
             /\ logged' = IF event'.error THEN <<"SocketSendError">> ELSE <<>>
             /\ UNCHANGED <<context, phase, parserBuffer>>]_vars

C15_Witness ==
    /\ event.kind = "writeCallback"
    /\ event.error
    /\ logged = <<"SerialWriteError">>
    /\ pendingWrites = 0
    /\ written = <<>>
    /\ sent = <<>>
    /\ currentRemoteInfo # NoRemoteInfo

\* the complete frames of a byte stream: each run up to and including a
\* sentinel byte (spec section 4.2)
RECURSIVE SplitFrom(_, _)
SplitFrom(b, run) ==
    IF b = <<>> THEN <<>>
    ELSE IF Head(b) = 255
      THEN << run \o <<255>> >> \o SplitFrom(Tail(b), <<>>)
      ELSE SplitFrom(Tail(b), run \o << Head(b) >>)
SplitAtSentinel(b) == SplitFrom(b, <<>>)

\* C16: while a request has been received, a serial chunk causes exactly one
\* network send per frame it completes, in order, each addressed to the last
\* request's address and port, carrying its sequence number and exactly the
\* frame bytes with the trailing 0xFF; no handler sends more packets than
\* the frames it was given, so sends never outnumber frames.
C16_OneSendPerFrame ==
    [][/\ (event'.kind = "serial" /\ lastRequest # NoRequest) =>
             LET frames == SplitAtSentinel(parserBuffer \o event'.buffer) IN
             /\ Len(sent') = Len(frames)
             /\ pendingSends' = pendingSends + Len(frames)
             /\ \A i \in 1..Len(sent') :
                   /\ sent'[i].address = lastRequest.remoteInfo.address
                   /\ sent'[i].port = lastRequest.remoteInfo.port
                   /\ WireSeq(sent'[i].msg) = lastRequest.sequenceNumber
                   /\ WireLength(sent'[i].msg) = Len(frames[i])
                   /\ WirePayload(sent'[i].msg) = frames[i]
       /\ Len(sent') <= (IF event'.kind = "serial"
                           THEN Sentinels(event'.buffer) ELSE 0)]_vars

C16_Witness ==
    /\ FrameHandled
    /\ Len(sent) = 2
    /\ WirePayload(sent[1].msg) = <<144, 255>>
    /\ WirePayload(sent[2].msg) = <<255>>
    /\ WireSeq(sent[1].msg) = WireSeq(sent[2].msg)
    /\ sent[1].port = sent[2].port
    /\ sent[1].port = lastRequest.remoteInfo.port

\* the bytes of a stream after its last sentinel byte
HeldBytes(b) == SubSeq(b, LastSentinel(b) + 1, Len(b))

\* C17: framing is buffered and independent of chunking: however the bytes
\* received so far were split into chunks, the frames emitted are the
\* complete frames of those bytes, and the bytes since the last 0xFF are
\* held back without producing a frame.
C17_ChunkingIndependent ==
    /\ pFrames = SplitAtSentinel(pFed)
    /\ Len(pFrames) = Sentinels(pFed)
    /\ pFed # <<>> => parserBuffer = HeldBytes(pFed)

C17_Witness ==
    /\ pFrames # <<>>
    /\ parserBuffer # <<>>
    /\ pTodo # <<>>
    /\ Head(pTodo) = 255
    /\ Len(pFed) >= 3

\* C19: startup ordering: the socket is bound only by a successful open of
\* the serial port; datagrams are handled and the context is set only once
\* the socket listens; after a failed open nothing is handled at all.  (A
\* serial frame can be handled before the first datagram: C19_Witness.)
C19_StartupOrdering ==
    [][/\ (phase' = "binding" /\ phase # "binding") =>
             phase = "opening" /\ event'.kind = "open" /\ ~event'.error
       /\ (event'.kind = "open" /\ event'.error) => phase' = "openFailed"
       /\ phase' = "listening" => phase \in {"binding", "listening"}
       /\ event'.kind = "message" => phase = "listening"
       /\ context' # context => phase = "listening"
       /\ phase # "openFailed"]_vars

C19_Witness ==
    /\ FrameHandled
    /\ lastRequest = NoRequest
    /\ currentRemoteInfo = NoRemoteInfo
    /\ phase # "opening"

\* C20: no filtering by category: a well-formed datagram of any of the six
\* categories, Reply and ControlReply included, overwrites the context and
\* has its payload written to the serial channel; a frame handled while the
\* stored category is Reply or ControlReply is answered with category Reply.
C20_NoCategoryFilter ==
    /\ (event.kind = "message" /\ Len(event.buffer) >= HeaderLen
           /\ WireCode(event.buffer) \in WireCategories
           /\ WireLength(event.buffer) = Len(event.buffer) - HeaderLen) =>
          /\ currentPacketType = WireCode(event.buffer)
          /\ lastRequest.type = WireCode(event.buffer)
          /\ Len(written) = 1
    /\ (FrameHandled /\ currentPacketType \in {WireReply, WireControlReply}) =>
          /\ sent # <<>>
          /\ \A i \in 1..Len(sent) : WireCode(sent[i].msg) = WireReply

C20_Witness ==
    /\ FrameHandled
    /\ currentPacketType = controlReply
    /\ sent # <<>>
    /\ WireCode(sent[1].msg) = WireReply

====
